---- MODULE Spec2Model ----
(***************************************************************************)
(* Pokemon popularity contest (src/app/main.py, src/app/utils.py).         *)
(*                                                                         *)
(* Three specifications share this module:                                 *)
(*   Spec        the Streamlit application: sessions rerun main() against  *)
(*               the shared "Community Pokemon Rankings" table;            *)
(*   SelectSpec  select_pokemon applied to bounded collections;            *)
(*   EloSpec     calculate_elo applied to bounded ratings.                 *)
(***************************************************************************)
EXTENDS Integers, Sequences, FiniteSets, TLC

VARIABLES
    db,             \* the table: id -> [elo, wins, losses]
    pc,             \* per session: position of the script run
    shown,          \* per session: pair rendered by the latest run (pokemon_a, pokemon_b)
    session_state,  \* per session: st.session_state.pokemon_a / pokemon_b
    clicked,        \* per session: the page and button of the click being handled
    pokemon_list,   \* per session: argument of update_pokemon_ratings
    current,        \* per session: row fetched for the item being updated (SeedRow outside the loop)
    runs,           \* number of script runs started so far (bounded by MaxRuns)
    writes,         \* per item: update statements executed on it
    sel_data,       \* SelectSpec: the collection handed to select_pokemon
    sel_pc,         \* SelectSpec: "ready" before the call, "done" after it
    sel_rand,       \* SelectSpec: the draws of random.random() and random.randint()
    sel_result,     \* SelectSpec: what the call produced
    elo_in,         \* EloSpec: arguments of calculate_elo
    elo_pc,         \* EloSpec: "ready" before the call, "done" after it
    elo_out         \* EloSpec: its result

vars == <<db, pc, shown, session_state, clicked, pokemon_list, current, runs,
          writes, sel_data, sel_pc, sel_rand, sel_result, elo_in, elo_pc, elo_out>>

app_vars == <<db, pc, shown, session_state, clicked, pokemon_list, current,
              runs, writes>>

----------------------------------------------------------------------------
(* Bounds of the model *)

NumItems == 3       \* rows of the table in Spec
MaxRuns == 4        \* script runs in Spec
MaxItems == 8       \* largest collection in SelectSpec

(* Program constants *)

K_FACTOR == 32      \* default k_factor of calculate_elo
ELO_DIV == 400      \* divisor of the rating difference in calculate_elo
INITIAL_ELO == 400  \* elo of a freshly seeded row
QUARTILES == 4      \* len(sorted_pokemon) // 4
UNDER_PCT == 25     \* behavior < 0.25
TIER_PCT == 75      \* behavior < 0.75

(* Python floats are kept in fixed point: a rating is an integer number of    *)
(* 1/Scale points, an expected score or a result an integer number of 1/ES.   *)
Scale == 100
ES == 1000

----------------------------------------------------------------------------
(* calculate_elo, main.py:258-277 *)

\* 10^(1/2), 10^(1/4), ..., 10^(1/256), in units of 1/ES
Roots == <<3162, 1778, 1334, 1155, 1075, 1037, 1018, 1009>>

RECURSIVE PowBits(_, _, _)
PowBits(f, i, acc) ==
    IF i > 8 THEN acc
    ELSE LET w == 2 ^ (8 - i)
             bit == (f \div w) % 2
         IN  PowBits(f, i + 1, IF bit = 1 THEN (acc * Roots[i]) \div ES ELSE acc)

\* 10 ** (d / 400) for a rating difference d (in 1/Scale points), in units of 1/ES;
\* the exponent is resolved to 1/256.
Pow10(d) ==
    LET a == IF d < 0 THEN -d ELSE d
        x == (a * 256) \div (ELO_DIV * Scale)
        p == PowBits(x % 256, 1, ES) * (10 ^ (x \div 256))
    IN  IF d < 0 THEN (ES * ES) \div p ELSE p

\* 1 / (1 + 10 ** ((rating_b - rating_a) / 400))
Expected(rating_a, rating_b) == (ES * ES) \div (ES + Pow10(rating_b - rating_a))

\* calculate_elo with the result of side A also credited to side B
calculate_elo_sameResult(rating_a, rating_b, result, k_factor) ==
    LET expected_a == Expected(rating_a, rating_b)
        expected_b == Expected(rating_b, rating_a)
        new_rating_a == rating_a + (k_factor * Scale * (result - expected_a)) \div ES
        new_rating_b == rating_b + (k_factor * Scale * (result - expected_b)) \div ES
    IN  <<new_rating_a, new_rating_b>>

calculate_elo(rating_a, rating_b, result, k_factor) ==
    LET expected_a == Expected(rating_a, rating_b)
        expected_b == Expected(rating_b, rating_a)
        new_rating_a == rating_a + (k_factor * Scale * (result - expected_a)) \div ES
        new_rating_b == rating_b + (k_factor * Scale * ((ES - result) - expected_b)) \div ES
    IN  <<new_rating_a, new_rating_b>>

----------------------------------------------------------------------------
(* select_pokemon, main.py:151-193 *)

Comparisons(pokemon) == pokemon.wins + pokemon.losses

\* sorted(pokemon_data, key=lambda x: x.get("elo", 0)): stable, ascending
RECURSIVE InsertByElo(_, _)
InsertByElo(x, list) ==
    IF list = <<>> THEN <<x>>
    ELSE IF x.elo < Head(list).elo THEN <<x>> \o list
    ELSE <<Head(list)>> \o InsertByElo(x, Tail(list))

RECURSIVE SortedByElo(_)
SortedByElo(list) ==
    IF list = <<>> THEN <<>>
    ELSE InsertByElo(list[Len(list)], SortedByElo(SubSeq(list, 1, Len(list) - 1)))

\* list[start:end] with 0-based, end-exclusive indices clipped as Python clips them
Slice(list, start, end) ==
    LET lo == IF start > Len(list) THEN Len(list) ELSE start
        hi == IF end > Len(list) THEN Len(list) ELSE end
    IN  IF hi <= lo THEN <<>> ELSE SubSeq(list, lo + 1, hi)

Returned(x, y) == [ok |-> TRUE, pair |-> <<x, y>>]
ValueError == [ok |-> FALSE, pair |-> <<>>]

\* random.sample replaced by two independent draws (random.choices)
Sample2_withReplacement(list) ==
    IF Len(list) < 2 THEN {ValueError}
    ELSE {Returned(list[p[1]], list[p[2]]) : p \in (1..Len(list)) \X (1..Len(list))}

\* random.sample that pads a list of one row instead of raising
Sample2_padded(list) ==
    IF list = <<>> THEN {ValueError}
    ELSE IF Len(list) = 1 THEN {Returned(list[1], list[1])}
    ELSE {Returned(list[p[1]], list[p[2]]) :
            p \in {q \in (1..Len(list)) \X (1..Len(list)) : q[1] # q[2]}}

\* random.sample(list, 2): every ordered choice of two positions, or ValueError
\* ("Sample larger than population") when the list is shorter than 2
Sample2(list) ==
    IF Len(list) < 2 THEN {ValueError}
    ELSE {Returned(list[p[1]], list[p[2]]) :
            p \in {q \in (1..Len(list)) \X (1..Len(list)) : q[1] # q[2]}}

\* not_compared, main.py:153-157
NotCompared(pokemon_data) ==
    LET IsNew(pokemon) == Comparisons(pokemon) = 0
    IN  SelectSeq(pokemon_data, IsNew)

\* min(pokemon_data, key=wins + losses), main.py:166-169 (the list is not empty)
FewestCount(pokemon_data) ==
    CHOOSE c \in {Comparisons(pokemon_data[i]) : i \in 1..Len(pokemon_data)} :
        \A i \in 1..Len(pokemon_data) : c <= Comparisons(pokemon_data[i])

\* fewest_wins_losses keyed by wins alone
FewestPool_byWins(pokemon_data) ==
    LET least == CHOOSE c \in {pokemon_data[i].wins : i \in 1..Len(pokemon_data)} :
                    \A i \in 1..Len(pokemon_data) : c <= pokemon_data[i].wins
        IsFewest(pokemon) == pokemon.wins = least
    IN  SelectSeq(pokemon_data, IsFewest)

\* fewest_wins_losses, main.py:171-177
FewestPool(pokemon_data) ==
    LET IsFewest(pokemon) == Comparisons(pokemon) = FewestCount(pokemon_data)
    IN  SelectSeq(pokemon_data, IsFewest)

\* quartile_pokemon cut from the list as loaded, without sorting it
QuartilePool_unsorted(pokemon_data, quartile) ==
    LET quartile_size == Len(pokemon_data) \div QUARTILES
        start_index == quartile * quartile_size
        end_index == start_index + quartile_size
    IN  Slice(pokemon_data, start_index, end_index)

\* quartile_pokemon, main.py:184-189
QuartilePool(pokemon_data, quartile) ==
    LET sorted_pokemon == SortedByElo(pokemon_data)
        quartile_size == Len(sorted_pokemon) \div QUARTILES
        start_index == quartile * quartile_size
        end_index == start_index + quartile_size
    IN  Slice(sorted_pokemon, start_index, end_index)

\* The draws of random.random() (in hundredths) and random.randint(0, 3)
Behaviors == {0, UNDER_PCT - 1, UNDER_PCT, TIER_PCT - 1, TIER_PCT, 99}
QuartileDraws == 0..(QUARTILES - 1)

\* the not-compared branch taken only from three rows on
HasNotCompared_three(pokemon_data) == Len(NotCompared(pokemon_data)) > 2

\* len(not_compared) > 1, main.py:158
HasNotCompared(pokemon_data) == Len(NotCompared(pokemon_data)) > 1

\* the ranked branch with an inclusive upper threshold
Branch_inclusive(behavior) ==
    IF behavior < UNDER_PCT THEN "fewest"
    ELSE IF behavior <= TIER_PCT THEN "ranked"
    ELSE "random"

\* The branch the draw of behavior takes, main.py:164 and 181
Branch(behavior) ==
    IF behavior < UNDER_PCT THEN "fewest"
    ELSE IF behavior < TIER_PCT THEN "ranked"
    ELSE "random"

\* Every outcome the call can have for the given draws of behavior and quartile:
\* the pairs random.sample can return, or the ValueError it (or min) raises.
select_pokemon(pokemon_data, behavior, quartile) ==
    IF HasNotCompared(pokemon_data)
    THEN Sample2(NotCompared(pokemon_data))
    ELSE IF Branch(behavior) = "fewest"
    THEN IF pokemon_data = <<>>
         THEN {ValueError}
         ELSE IF Len(FewestPool(pokemon_data)) > 1
              THEN Sample2(FewestPool(pokemon_data))
              ELSE Sample2(pokemon_data)
    ELSE IF Branch(behavior) = "ranked"
    THEN IF Len(QuartilePool(pokemon_data, quartile)) > 1
         THEN Sample2(QuartilePool(pokemon_data, quartile))
         ELSE Sample2(pokemon_data)
    ELSE Sample2(pokemon_data)

\* The draws a call makes: none when the not-compared branch returns, quartile
\* only in the ranked branch (a draw that is not made is recorded as 0).
Draws(pokemon_data) ==
    IF HasNotCompared(pokemon_data) THEN {<<0, 0>>}
    ELSE {<<b, q>> \in Behaviors \X QuartileDraws : Branch(b) = "ranked" \/ q = 0}

\* Every outcome a call can have, over all the draws it can make
Outcomes(pokemon_data) ==
    UNION {select_pokemon(pokemon_data, d[1], d[2]) : d \in Draws(pokemon_data)}

----------------------------------------------------------------------------
(* Each specification leaves the variables of the other two at rest *)

AppIdle ==
    /\ db = <<>>
    /\ pc = <<>>
    /\ shown = <<>>
    /\ session_state = <<>>
    /\ clicked = <<>>
    /\ pokemon_list = <<>>
    /\ current = <<>>
    /\ runs = 0
    /\ writes = <<>>

SelIdle ==
    /\ sel_data = <<>>
    /\ sel_pc = "off"
    /\ sel_rand = <<0, 0>>
    /\ sel_result = ValueError

EloIdle ==
    /\ elo_in = <<>>
    /\ elo_pc = "off"
    /\ elo_out = <<>>

----------------------------------------------------------------------------
(* The application: main() rerun by each session, main.py:311-649 *)

Ids == 1..NumItems
\* Two browser sessions: every race of the table is a race between two runs
Sessions == {1, 2}

\* rows as fetch_pokemon_data seeds them, utils.py:46-55
SeedRow == [elo |-> INITIAL_ELO * Scale, wins |-> 0, losses |-> 0]

\* load_pokemon_data with no generation selected, main.py:104-106
load_pokemon_data(table) ==
    [i \in 1..NumItems |->
        [id |-> i, elo |-> table[i].elo, wins |-> table[i].wins, losses |-> table[i].losses]]

\* The page a run has rendered: the pair of the run and the vote buttons on it
NoPage == [pair |-> <<>>, buttons |-> {}]

\* No click is being handled
NoClick == [pair |-> <<>>, button |-> "none"]

\* st.session_state.pokemon_a / pokemon_b are None until a run stores a pair
None == <<>>

\* pokemon_to_update_a / pokemon_to_update_b, main.py:370-386 and 394-410:
\* the ratings come from the pair kept in st.session_state
UpdateList(kept, click) ==
    LET result == IF click = "A" THEN ES ELSE 0
        rated == calculate_elo(kept[1].elo, kept[2].elo, result, K_FACTOR)
    IN  << [id |-> kept[1].id, new_rating |-> rated[1],
            result |-> IF click = "A" THEN 1 ELSE -1],
           [id |-> kept[2].id, new_rating |-> rated[2],
            result |-> IF click = "A" THEN -1 ELSE 1] >>

\* The buttons rendered when the handler of the clicked button starts: column B
\* is rendered after the handler of winner_A returns, main.py:365-393
ButtonsAt(click) == IF click = "A" THEN {"A"} ELSE {"A", "B"}

\* update_payload, main.py:221-232
UpdatePayload(fetched, pokemon_to_update) ==
    [elo |-> pokemon_to_update.new_rating,
     wins |-> IF pokemon_to_update.result = 1 THEN fetched.wins + 1 ELSE fetched.wins,
     losses |-> IF pokemon_to_update.result = 1 THEN fetched.losses ELSE fetched.losses + 1]

\* The application does not touch the variables of SelectSpec and EloSpec
OthersIdle == UNCHANGED <<sel_data, sel_pc, sel_rand, sel_result, elo_in, elo_pc, elo_out>>

Init ==
    /\ db = [i \in Ids |-> SeedRow]
    /\ pc = [s \in Sessions |-> "idle"]
    /\ shown = [s \in Sessions |-> NoPage]
    /\ session_state = [s \in Sessions |-> None]
    /\ clicked = [s \in Sessions |-> NoClick]
    /\ pokemon_list = [s \in Sessions |-> <<>>]
    /\ current = [s \in Sessions |-> SeedRow]
    /\ runs = 0
    /\ writes = [i \in Ids |-> 0]
    /\ SelIdle
    /\ EloIdle

\* A rerun without a vote (first visit, reload, widget change): main.py:345-361,
\* the rest of the page, and the store of the pair at main.py:647-649.
View(s) ==
    /\ pc[s] = "idle"
    /\ runs < MaxRuns
    /\ runs' = runs + 1
    /\ LET loaded == load_pokemon_data(db)
       IN  /\ loaded # <<>>
           /\ \E out \in Outcomes(loaded) :
                /\ out.ok
                /\ shown' = [shown EXCEPT ![s] = [pair |-> out.pair, buttons |-> {"A", "B"}]]
                /\ session_state' = [session_state EXCEPT ![s] = out.pair]
    /\ UNCHANGED <<db, pc, clicked, pokemon_list, current, writes>>
    /\ OthersIdle

\* A rerun caused by a click on winner_A or winner_B: main.py:345-361, then the
\* handler of the button up to the call of update_pokemon_ratings (369-387, 393-411).
Click(s, click) ==
    /\ pc[s] = "idle"
    /\ click \in shown[s].buttons
    /\ runs < MaxRuns
    /\ runs' = runs + 1
    /\ LET loaded == load_pokemon_data(db)
       IN  /\ loaded # <<>>
           /\ \E out \in Outcomes(loaded) :
                /\ out.ok
                /\ shown' = [shown EXCEPT ![s] = [pair |-> out.pair, buttons |-> ButtonsAt(click)]]
    /\ clicked' = [clicked EXCEPT ![s] = [pair |-> shown[s].pair, button |-> click]]
    /\ pokemon_list' = [pokemon_list EXCEPT ![s] = UpdateList(session_state[s], click)]
    /\ pc' = [pc EXCEPT ![s] = "fetch"]
    /\ UNCHANGED <<db, session_state, current, writes>>
    /\ OthersIdle

\* fetch_response of update_pokemon_ratings, main.py:208-218
Fetch(s) ==
    /\ pc[s] = "fetch"
    /\ current' = [current EXCEPT ![s] = db[Head(pokemon_list[s]).id]]
    /\ pc' = [pc EXCEPT ![s] = "update"]
    /\ UNCHANGED <<db, shown, session_state, clicked, pokemon_list, runs, writes>>
    /\ OthersIdle

\* update_response of update_pokemon_ratings, main.py:220-239; after the last
\* row the run renders the rest of the page and stores its pair, main.py:647-649.
Update(s) ==
    /\ pc[s] = "update"
    /\ LET pokemon_to_update == Head(pokemon_list[s])
           rest == Tail(pokemon_list[s])
       IN  /\ db' = [db EXCEPT ![pokemon_to_update.id] =
                        UpdatePayload(current[s], pokemon_to_update)]
           /\ writes' = [writes EXCEPT ![pokemon_to_update.id] = @ + 1]
           /\ pokemon_list' = [pokemon_list EXCEPT ![s] = rest]
           /\ IF rest = <<>>
              THEN /\ pc' = [pc EXCEPT ![s] = "idle"]
                   /\ shown' = [shown EXCEPT ![s].buttons = {"A", "B"}]
                   /\ session_state' = [session_state EXCEPT ![s] = shown[s].pair]
                   /\ clicked' = [clicked EXCEPT ![s] = NoClick]
              ELSE /\ pc' = [pc EXCEPT ![s] = "fetch"]
                   /\ UNCHANGED <<shown, session_state, clicked>>
    /\ current' = [current EXCEPT ![s] = SeedRow]
    /\ UNCHANGED runs
    /\ OthersIdle

\* st.stop() inside update_pokemon_ratings: authentication failed (203-205), a
\* request raised (245-248) or no row was updated (241-243). The run ends where
\* it is; main.py:647-649 is not reached.
Stop(s) ==
    /\ pc[s] \in {"fetch", "update"}
    /\ pc' = [pc EXCEPT ![s] = "idle"]
    /\ pokemon_list' = [pokemon_list EXCEPT ![s] = <<>>]
    /\ current' = [current EXCEPT ![s] = SeedRow]
    /\ clicked' = [clicked EXCEPT ![s] = NoClick]
    /\ UNCHANGED <<db, shown, session_state, runs, writes>>
    /\ OthersIdle

\* Spec: the sessions run concurrently against the table
Next ==
    \E s \in Sessions :
        \/ View(s)
        \/ \E click \in {"A", "B"} : Click(s, click)
        \/ Fetch(s)
        \/ Update(s)
        \/ Stop(s)

Spec == Init /\ [][Next]_vars

\* SoloSpec: one session runs alone (no other run touches the table)
SoloSessions == {1}

SoloNext ==
    \E s \in SoloSessions :
        \/ View(s)
        \/ \E click \in {"A", "B"} : Click(s, click)
        \/ Fetch(s)
        \/ Update(s)
        \/ Stop(s)

SoloSpec == Init /\ [][SoloNext]_vars

----------------------------------------------------------------------------
(* SelectSpec: select_pokemon on bounded collections *)

\* Rows a collection is built from
Profiles == << [elo |-> 41600, wins |-> 1, losses |-> 0],
               [elo |-> 40000, wins |-> 0, losses |-> 0],
               [elo |-> 38400, wins |-> 0, losses |-> 1],
               [elo |-> 40000, wins |-> 1, losses |-> 1] >>

Row(i, profile) ==
    [id |-> i, elo |-> profile.elo, wins |-> profile.wins, losses |-> profile.losses]

\* Collections of n rows with ids 1..n; the table is an unordered set of rows,
\* so one list per multiset of profiles is taken.
CollectionsOf(n) ==
    { [i \in 1..n |-> Row(i, Profiles[f[i]])] :
        f \in {g \in [1..n -> 1..Len(Profiles)] :
                 \A i \in 1..n : i < n => g[i] <= g[i + 1]} }

Collections == UNION {CollectionsOf(n) : n \in 0..MaxItems}

SelInit ==
    /\ sel_data \in Collections
    /\ sel_pc = "ready"
    /\ sel_rand = <<0, 0>>
    /\ sel_result = ValueError

SelectCall ==
    /\ sel_pc = "ready"
    /\ \E d \in Draws(sel_data) :
         \E out \in select_pokemon(sel_data, d[1], d[2]) :
            /\ sel_rand' = d
            /\ sel_result' = out
    /\ sel_pc' = "done"
    /\ UNCHANGED <<sel_data, app_vars, elo_in, elo_pc, elo_out>>

SelNext == SelectCall

\* select_pokemon is called on its own: nothing else has run
SelStart == SelInit /\ AppIdle /\ EloIdle

SelectSpec == SelStart /\ [][SelNext]_vars

----------------------------------------------------------------------------
(* EloSpec: calculate_elo on bounded ratings *)

\* ratings (in 1/Scale points), results (in 1/ES: loss, draw, win) and k factors
EloRatings == {38400, 40000, 40037, 41600, 100000, 120000, 140000}
EloResults == {0, ES \div 2, ES}
EloKFactors == {K_FACTOR \div 2, K_FACTOR}

EloInit ==
    /\ elo_in \in EloRatings \X EloRatings \X EloResults \X EloKFactors
    /\ elo_pc = "ready"
    /\ elo_out = <<>>

EloCall ==
    /\ elo_pc = "ready"
    /\ elo_out' = calculate_elo(elo_in[1], elo_in[2], elo_in[3], elo_in[4])
    /\ elo_pc' = "done"
    /\ UNCHANGED <<elo_in, app_vars, sel_data, sel_pc, sel_rand, sel_result>>

EloNext == EloCall

\* calculate_elo is called on its own: nothing else has run
EloStart == EloInit /\ AppIdle /\ SelIdle

EloSpec == EloStart /\ [][EloNext]_vars

----------------------------------------------------------------------------
(* Vocabulary of the properties, stated without the operators of the model *)

RowsOf(list) == {list[i] : i \in 1..Len(list)}

Count(row) == row.wins + row.losses

\* rows that were never compared
FreshRows(list) == {r \in RowsOf(list) : Count(r) = 0}

\* every ordered pair of two different rows of a set, as a returned result
PairsOf(rows) == {[ok |-> TRUE, pair |-> <<x, y>>] : x, y \in rows} \
                 {[ok |-> TRUE, pair |-> <<x, x>>] : x \in rows}

\* rows whose comparison count is the smallest of the collection
FewestRows(list) == {r \in RowsOf(list) : \A r2 \in RowsOf(list) : Count(r) <= Count(r2)}

\* 0-based position of list[i] once the list is sorted by a key, ties in list order
RankBy(list, Key(_), i) ==
    Cardinality({j \in 1..Len(list) :
        \/ Key(list[j]) < Key(list[i])
        \/ (Key(list[j]) = Key(list[i]) /\ j < i)})

EloOf(row) == row.elo

\* the bottom decile of the collection sorted ascending by comparison count
DecileRows(list) ==
    {list[i] : i \in {j \in 1..Len(list) : RankBy(list, Count, j) < Len(list) \div 10}}

\* position of every row in the elo order
EloRanks(list) == [j \in 1..Len(list) |-> RankBy(list, EloOf, j)]

\* the rows whose rank lies in slice k (0-based) of slices of floor(n / d) rows
RowsRanked(list, rank, d, k) ==
    LET size == Len(list) \div d
    IN  {list[i] : i \in {j \in 1..Len(list) :
            rank[j] >= k * size /\ rank[j] < k * size + size}}

\* slice k (0-based) of the collection sorted by elo and cut into slices of floor(n / d)
SliceRows(list, d, k) ==
    UNION {RowsRanked(list, rank, d, k) : rank \in {EloRanks(list)}}

\* the slices a division count of lo..hi and a slice index below it can give
SlicePools(list, lo, hi) ==
    UNION {{RowsRanked(list, rank, dk[1], dk[2]) :
                dk \in {x \in (lo..hi) \X (0..(hi - 1)) : x[2] < x[1]}} :
           rank \in {EloRanks(list)}}

\* a result drawn from a pool when it holds two rows, else from the whole collection
DrawnFrom(pool, list) ==
    IF Cardinality(pool) >= 2 THEN PairsOf(pool) ELSE PairsOf(RowsOf(list))

SelDone == sel_pc = "done"
SelBehavior == sel_rand[1]
SelQuartile == sel_rand[2]
SelOutcomes == select_pokemon(sel_data, SelBehavior, SelQuartile)

\* a call on at least two rows of which fewer than two were never compared
SelPastFresh ==
    /\ SelDone
    /\ Len(sel_data) >= 2
    /\ Cardinality(FreshRows(sel_data)) < 2

----------------------------------------------------------------------------
(* Properties of select_pokemon, checked under SelectSpec *)

\* C1: for every collection of at least two rows and every draw, select_pokemon
\* returns (it does not raise) two different rows, both rows of the collection.
C1_ReturnsTwoDistinctMembers ==
    (SelDone /\ Len(sel_data) >= 2) =>
        /\ sel_result.ok
        /\ sel_result.pair[1] # sel_result.pair[2]
        /\ sel_result.pair[1] \in RowsOf(sel_data)
        /\ sel_result.pair[2] \in RowsOf(sel_data)

\* a call in the fewest-comparisons branch on rows that all have the same
\* non-zero comparison count has returned a pair
C1_Witness ==
    /\ SelDone
    /\ Len(sel_data) >= 4
    /\ \A r \in RowsOf(sel_data) : Count(r) = 1
    /\ SelBehavior < 25
    /\ sel_result.ok

\* C3: on a collection of fewer than two rows select_pokemon never returns a
\* pair: whatever the draws, it raises, and the error reaches the caller.
C3_TooFewRowsRaises ==
    (SelDone /\ Len(sel_data) < 2) => ~sel_result.ok

\* a call on a single row has raised in the pure-random branch
C3_Witness ==
    /\ SelDone
    /\ Len(sel_data) = 1
    /\ SelBehavior >= 75
    /\ sel_result = ValueError

\* C8 as claimed: with r < 0.25 the pool is the bottom decile by comparison
\* count; the result is drawn from it when it holds two rows, else from the
\* whole collection.
C8_BottomDecilePool ==
    (SelPastFresh /\ SelBehavior < 25) =>
        /\ sel_result \in DrawnFrom(DecileRows(sel_data), sel_data)
        /\ SelOutcomes = DrawnFrom(DecileRows(sel_data), sel_data)

\* C8 as amended: with r < 0.25 the pool is the set of rows whose comparison
\* count equals the smallest count of the collection; the result is drawn from
\* it when it holds two rows, else from the whole collection.
C8_FewestPool ==
    (SelPastFresh /\ SelBehavior < 25) =>
        /\ sel_result \in DrawnFrom(FewestRows(sel_data), sel_data)
        /\ SelOutcomes = DrawnFrom(FewestRows(sel_data), sel_data)

\* a call with r < 0.25 has returned two of the least compared rows while other
\* rows of the collection have more comparisons
C8_Witness ==
    /\ SelPastFresh
    /\ SelBehavior < 25
    /\ Cardinality(FewestRows(sel_data)) >= 2
    /\ FewestRows(sel_data) # RowsOf(sel_data)
    /\ sel_result \in PairsOf(FewestRows(sel_data))

\* C9 as claimed: with 0.25 <= r < 0.75 a division count d in 4..20 and a slice
\* index are drawn; the result is drawn from that slice of the elo-sorted
\* collection when it holds two rows, else from the whole collection.
C9_DivisionsFrom4To20 ==
    (SelPastFresh /\ SelBehavior >= 25 /\ SelBehavior < 75) =>
        UNION {select_pokemon(sel_data, SelBehavior, q) : q \in 0..3} =
        UNION {DrawnFrom(pool, sel_data) : pool \in SlicePools(sel_data, 4, 20)}

\* C9 as amended: with 0.25 <= r < 0.75 the division count is always 4; the
\* collection sorted by elo is cut into slices of floor(n / 4) rows, a slice
\* index in 0..3 is drawn, and the result is drawn from that slice when it holds
\* two rows, else from the whole collection.
C9_Quartiles ==
    (SelPastFresh /\ SelBehavior >= 25 /\ SelBehavior < 75) =>
        /\ SelQuartile \in 0..3
        /\ sel_result \in DrawnFrom(SliceRows(sel_data, 4, SelQuartile), sel_data)
        /\ SelOutcomes = DrawnFrom(SliceRows(sel_data, 4, SelQuartile), sel_data)

\* a call with 0.25 <= r < 0.75 has returned two rows of one quartile of the
\* elo order, a quartile that is not a run of the list as loaded
C9_Witness ==
    /\ SelPastFresh
    /\ SelBehavior >= 25 /\ SelBehavior < 75
    /\ Cardinality(SliceRows(sel_data, 4, SelQuartile)) >= 2
    /\ sel_result \in PairsOf(SliceRows(sel_data, 4, SelQuartile))
    /\ sel_result.pair[2].id # sel_result.pair[1].id + 1
    /\ sel_result.pair[1].id # sel_result.pair[2].id + 1

\* the branch taken left fewer than two rows to draw from, or none was taken
SelFallsBack ==
    \/ SelBehavior >= 75
    \/ SelBehavior < 25 /\ Cardinality(FewestRows(sel_data)) < 2
    \/ /\ SelBehavior >= 25 /\ SelBehavior < 75
       /\ Cardinality(SliceRows(sel_data, 4, SelQuartile)) < 2

\* C10: on at least two rows with fewer than two never compared, when r >= 0.75
\* or the branch taken left fewer than two rows, the result is drawn from the
\* whole collection: every ordered pair of different rows can be returned.
C10_FallbackDrawsFromAll ==
    (SelPastFresh /\ SelFallsBack) =>
        /\ sel_result \in PairsOf(RowsOf(sel_data))
        /\ SelOutcomes = PairsOf(RowsOf(sel_data))

\* a call with r >= 0.75 has returned a pair that neither pool could give: the
\* rows are in different quartiles and one of them is not among the least compared
C10_Witness ==
    /\ SelPastFresh
    /\ SelBehavior >= 75
    /\ Len(sel_data) >= 8
    /\ sel_result.ok
    /\ sel_result.pair[1] \notin FewestRows(sel_data)
    /\ \A k \in 0..3 : ~({sel_result.pair[1], sel_result.pair[2]} \subseteq SliceRows(sel_data, 4, k))

----------------------------------------------------------------------------
(* Property of calculate_elo, checked under EloSpec *)

\* C7: calculate_elo(a, b, s) is calculate_elo(b, a, 1 - s) with the two results
\* swapped, for s in {0, 1/2, 1}: the new rating of an item does not depend on
\* the argument slot it occupies.
C7_EloSymmetry ==
    elo_pc = "done" =>
        LET swapped == calculate_elo(elo_in[2], elo_in[1], ES - elo_in[3], elo_in[4])
        IN  elo_out = <<swapped[2], swapped[1]>>

\* a win of the lower rated side has been rated, and both ratings moved
C7_Witness ==
    /\ elo_pc = "done"
    /\ elo_in[1] < elo_in[2]
    /\ elo_in[3] = ES
    /\ elo_out[1] > elo_in[1]
    /\ elo_out[2] < elo_in[2]

----------------------------------------------------------------------------
(* Properties of the application *)

\* the rows of the table
TableRows ==
    {[id |-> i, elo |-> db[i].elo, wins |-> db[i].wins, losses |-> db[i].losses] :
        i \in DOMAIN db}

FreshInTable == {r \in TableRows : Count(r) = 0}

\* session s starts a run in this step (it loads the table and calls select_pokemon)
RunStarts(s) ==
    /\ runs' = runs + 1
    /\ pc[s] = "idle"
    /\ \A t \in DOMAIN pc \ {s} :
          pc'[t] = pc[t] /\ shown'[t] = shown[t] /\ session_state'[t] = session_state[t]

\* session s executes the update statement of the row at the head of its list
VoteWrites(s) ==
    /\ pc[s] = "update"
    /\ writes' # writes
    /\ pokemon_list'[s] # pokemon_list[s]

\* C2 (SoloSpec): from a table of all-zero rows, through any sequence of runs
\* and votes, every call of select_pokemon made while at least two rows of the
\* table have wins + losses = 0 returns two rows with wins + losses = 0.
C2_FreshPairsFirst ==
    [][(runs' = runs + 1 /\ Cardinality(FreshInTable) >= 2) =>
          \E s \in DOMAIN pc :
             /\ RunStarts(s)
             /\ shown'[s].pair # <<>>
             /\ shown'[s].pair[1] \in FreshInTable
             /\ shown'[s].pair[2] \in FreshInTable]_vars

\* a run has just called select_pokemon on a table that holds a compared row
\* and at least two never compared rows, and shows two never compared rows
C2_Witness ==
    \E s \in DOMAIN pc :
       /\ pc[s] = "fetch"
       /\ Len(pokemon_list[s]) = 2
       /\ \E r \in TableRows : Count(r) > 0
       /\ Cardinality(FreshInTable) >= 2
       /\ shown[s].pair[1] \in FreshInTable
       /\ shown[s].pair[2] \in FreshInTable

C5_CountersNeverDecrease ==
    [][\A i \in DOMAIN db :
          /\ db'[i].wins >= db[i].wins
          /\ db'[i].losses >= db[i].losses]_vars

\* C6 (Spec): no update is lost, however the votes of the sessions interleave:
\* wins + losses of every row equals the number of update statements executed
\* on it, so two votes on a row raise its wins + losses by exactly 2.
C6_NoLostUpdate ==
    \A i \in DOMAIN db : db[i].wins + db[i].losses = writes[i]

\* session s starts handling a click in this step: the handler has called
\* calculate_elo and built the list it hands to update_pokemon_ratings
VoteStarts(s) ==
    /\ pc[s] = "idle"
    /\ pc'[s] = "fetch"

\* the run before the click ran to its end: the pair it stored is the pair on the page
PageStored(s) == session_state[s] = shown[s].pair

\* wins and losses summed over the rows 1..n of the table
RECURSIVE WinsUpTo(_)
WinsUpTo(n) == IF n = 0 THEN 0 ELSE db[n].wins + WinsUpTo(n - 1)

RECURSIVE LossesUpTo(_)
LossesUpTo(n) == IF n = 0 THEN 0 ELSE db[n].losses + LossesUpTo(n - 1)

TotalWins == WinsUpTo(Cardinality(DOMAIN db))
TotalLosses == LossesUpTo(Cardinality(DOMAIN db))

\* no vote was cut short between its two update statements
NoVoteCutShort == TotalWins = TotalLosses

\* C11 (SoloSpec): the ratings a vote hands to calculate_elo are the elo values
\* stored in the table when the vote is applied: for a single session whose
\* earlier runs all ran to their end, the new ratings of the update list are
\* the output of calculate_elo on the stored elo of the two rows, so the rating
\* change of an earlier vote on a row is never overwritten.
C11_RatingsFromStoredElo ==
    [][\A s \in DOMAIN pc :
          (VoteStarts(s) /\ PageStored(s) /\ NoVoteCutShort) =>
             LET list == pokemon_list'[s]
                 result == IF list[1].result = 1 THEN ES ELSE 0
                 rated == calculate_elo(db[list[1].id].elo, db[list[2].id].elo,
                                        result, K_FACTOR)
             IN  /\ list[1].new_rating = rated[1]
                 /\ list[2].new_rating = rated[2]]_vars

\* the ids of a pair of rows, the ids of an update list
PairIds(pair) == {pair[k].id : k \in DOMAIN pair}
ListIds(list) == {list[k].id : k \in DOMAIN list}

\* C12 (SoloSpec): a vote is applied to the pair that was on the page when the
\* button was clicked: in every sequence of runs, runs stopped by
\* update_pokemon_ratings included, the ids of the update list a click builds
\* are the ids of the pair the page showed before the click.
C12_VoteOnDisplayedPair ==
    [][\A s \in DOMAIN pc :
          VoteStarts(s) => ListIds(pokemon_list'[s]) = PairIds(shown[s].pair)]_vars

\* no session is inside update_pokemon_ratings
NoVoteInProgress == \A s \in DOMAIN pc : pc[s] = "idle"

\* C13 (SoloSpec): from the seeded table, whenever no vote is in progress the
\* wins summed over all rows equal the losses summed over all rows (the number
\* of votes applied, which the summary tab reports as the sum of wins).
C13_CounterBalance ==
    NoVoteInProgress => TotalWins = TotalLosses

====
